---- MODULE Spec2Model ----
(***************************************************************************)
(* Model of the exoplanet pipeline of src/exoplanets.py: the fetch, the    *)
(* CSV/JSON snapshots, check_duplicates, sort_data and the eight report    *)
(* generators, run step by step as main() runs them.                       *)
(*                                                                         *)
(* A raw value (a CSV cell, a str in Python) is a sequence of one-char     *)
(* strings; <<>> is the empty string.  A parsed record (a dict) is a       *)
(* function from field names to raw values.                                *)
(***************************************************************************)
EXTENDS Integers, Sequences, FiniteSets, TLC

VARIABLES archive, response, pc, error, csvFiles, jsonFiles, reports, written,
          exoplanets_db

vars == <<archive, response, pc, error, csvFiles, jsonFiles, reports, written,
          exoplanets_db>>

(* ------------------------------ bounds --------------------------------- *)

\* Most data rows the archive's CSV payload holds.
MaxRows == 3

(* --------------------------- program constants ------------------------- *)

EARTH_RADIUS_KM == 6371
EARTH_FLUX_W_M2 == 1361
AU_PER_PARSEC == 206265
\* EARTH_YEAR = 365.25, in hundredths (the unit of every parsed number here).
EARTH_YEAR == 36525
\* The threshold 10_000 of orbital_period, in days.
ESTIMATED_DAYS == 10000
\* Largest decimal exponent of a finite Python float (sys.float_info.max_10_exp):
\* float() of a larger magnitude is float("inf").
FLOAT_MAX_10_EXP == 308
\* Parsed numbers are fixed-point: an integer count of 1/Scale.
Scale == 100

(* ------------------------------ raw text ------------------------------- *)

Range(s) == {s[i] : i \in 1..Len(s)}

Digits == <<"0", "1", "2", "3", "4", "5", "6", "7", "8", "9">>

IsDigit(c) == c \in Range(Digits)

DigitVal(c) == (CHOOSE i \in 1..10 : Digits[i] = c) - 1

AllDigits(s) == \A i \in 1..Len(s) : IsDigit(s[i])

\* First position of character c in s, 0 when absent.
IndexOf(s, c) ==
    IF \E i \in 1..Len(s) : s[i] = c
    THEN CHOOSE i \in 1..Len(s) : s[i] = c /\ \A j \in 1..(i - 1) : s[j] # c
    ELSE 0

RECURSIVE DecimalValue(_)
\* The natural number a digit string denotes (0 for the empty string).
DecimalValue(s) ==
    IF s = <<>> THEN 0
    ELSE 10 * DecimalValue(SubSeq(s, 1, Len(s) - 1)) + DigitVal(s[Len(s)])

RECURSIVE Pow10(_)
Pow10(n) == IF n = 0 THEN 1 ELSE 10 * Pow10(n - 1)

\* Code point of a character (str comparison in Python is by code point).
Ord(c) ==
    CASE c = "\"" -> 34
      [] c = "-"  -> 45
      [] c = "."  -> 46
      [] IsDigit(c) -> 48 + DigitVal(c)
      [] c = "\\" -> 92
      [] c = "a"  -> 97
      [] c = "b"  -> 98
      [] c = "c"  -> 99
      [] c = "e"  -> 101
      [] c = "f"  -> 102
      [] c = "i"  -> 105
      [] c = "n"  -> 110
      [] OTHER    -> 65

RECURSIVE StrLess(_, _)
\* Python's s < t on str: lexicographic by code point, a proper prefix first.
StrLess(s, t) ==
    IF t = <<>> THEN FALSE
    ELSE IF s = <<>> THEN TRUE
    ELSE IF Ord(s[1]) # Ord(t[1]) THEN Ord(s[1]) < Ord(t[1])
    ELSE StrLess(Tail(s), Tail(t))

(* ------------------------------ float() -------------------------------- *)

\* A sort key: a finite float ("num", v in 1/Scale), float("inf") ("inf"),
\* a str ("str", s), or the ValueError float() raised ("err").
NumKey(n) == [tag |-> "num", v |-> n, s |-> <<>>]
InfKey == [tag |-> "inf", v |-> 0, s |-> <<>>]
StrKey(t) == [tag |-> "str", v |-> 0, s |-> t]
ErrKey == [tag |-> "err", v |-> 0, s |-> <<>>]

MISSING_VALUE == InfKey

\* float(s) on the texts the model draws: an unsigned decimal
\* digits[.digits][e digits] parses to its value (decimals beyond 1/Scale
\* dropped, a magnitude above the largest finite float giving inf), "inf"
\* parses to inf, and a text with any other character raises ValueError.
float(s) ==
    LET ePos == IndexOf(s, "e")
        mant == IF ePos = 0 THEN s ELSE SubSeq(s, 1, ePos - 1)
        expo == IF ePos = 0 THEN <<>> ELSE SubSeq(s, ePos + 1, Len(s))
        dPos == IndexOf(mant, ".")
        ip == IF dPos = 0 THEN mant ELSE SubSeq(mant, 1, dPos - 1)
        fp == IF dPos = 0 THEN <<>> ELSE SubSeq(mant, dPos + 1, Len(mant))
        fp2 == SubSeq(fp \o <<"0", "0">>, 1, 2)
        ok == /\ AllDigits(ip) /\ AllDigits(fp) /\ Len(ip) + Len(fp) > 0
              /\ (ePos = 0 \/ (expo # <<>> /\ AllDigits(expo)))
        m == Scale * DecimalValue(ip) + DecimalValue(fp2)
    IN  IF s = <<"i", "n", "f">> THEN InfKey
        ELSE IF ~ok THEN ErrKey
        ELSE IF ePos = 0 \/ m = 0 THEN NumKey(m)
        ELSE IF DecimalValue(expo) + Len(ip) - 1 > FLOAT_MAX_10_EXP THEN InfKey
        ELSE NumKey(m * Pow10(DecimalValue(expo)))

\* Python's a < b on two keys of one kind.
KeyLess(a, b) ==
    IF a.tag = "str" THEN StrLess(a.s, b.s)
    ELSE IF a.tag = "num" THEN b.tag = "inf" \/ (b.tag = "num" /\ a.v < b.v)
    ELSE FALSE

(* --------------------------- check_duplicates -------------------------- *)

RECURSIVE dedup_loop(_, _, _)
\* The for loop of check_duplicates: database and set_data after the rows
\* left in reader have been visited.
dedup_loop(reader, database, set_data) ==
    IF reader = <<>> THEN database
    ELSE LET row == Head(reader)
         IN  IF row["pl_name"] \notin set_data
             THEN dedup_loop(Tail(reader), Append(database, row),
                             set_data \cup {row["pl_name"]})
             ELSE dedup_loop(Tail(reader), database, set_data)

RECURSIVE dedup_loop_forgetful(_, _, _)
\* dedup_loop with the name discarded from set_data when a duplicate is met.
dedup_loop_forgetful(reader, database, set_data) ==
    IF reader = <<>> THEN database
    ELSE LET row == Head(reader)
         IN  IF row["pl_name"] \notin set_data
             THEN dedup_loop_forgetful(Tail(reader), Append(database, row),
                                       set_data \cup {row["pl_name"]})
             ELSE dedup_loop_forgetful(Tail(reader), database,
                                       set_data \ {row["pl_name"]})

RECURSIVE dedup_loop_last(_, _, _)
\* dedup_loop keeping the last record of each name instead of the first.
dedup_loop_last(reader, database, set_data) ==
    IF reader = <<>> THEN database
    ELSE LET row == Head(reader)
             later == {Tail(reader)[i]["pl_name"] : i \in 1..(Len(reader) - 1)}
         IN  IF row["pl_name"] \notin later
             THEN dedup_loop_last(Tail(reader), Append(database, row), set_data)
             ELSE dedup_loop_last(Tail(reader), database, set_data)

check_duplicates_forgetful(reader) == dedup_loop_forgetful(reader, <<>>, {})

check_duplicates_last(reader) == dedup_loop_last(reader, <<>>, {})

check_duplicates(reader) == dedup_loop(reader, <<>>, {})

\* row[field] raises KeyError for some row of the reader.
RaisesKeyError(reader, field) ==
    \E i \in 1..Len(reader) : field \notin DOMAIN reader[i]

(* -------------------------------- CSV ---------------------------------- *)

\* A CSV file: whether it exists, its header row and its data rows (each a
\* sequence of cells in header order).
NoCsv == [exists |-> FALSE, header |-> <<>>, lines |-> <<>>]

RECURSIVE zip_dict(_, _)
\* dict(zip(names, cells)): a name met again keeps its later cell.
zip_dict(names, cells) ==
    IF names = <<>> \/ cells = <<>> THEN <<>>
    ELSE zip_dict(Tail(names), Tail(cells)) @@ (Head(names) :> Head(cells))

\* csv.DictReader: each data row as a dict keyed by the header's names.
DictReader(file) ==
    [i \in 1..Len(file.lines) |-> zip_dict(file.header, file.lines[i])]

\* csv.DictWriter.writerow: the row's cells in fieldnames order.
writerow(fieldnames, row) == [j \in 1..Len(fieldnames) |-> row[fieldnames[j]]]

\* writeheader() followed by writerow() of every record of database.
DictWriter(fieldnames, database) ==
    [exists |-> TRUE, header |-> fieldnames,
     lines |-> [i \in 1..Len(database) |-> writerow(fieldnames, database[i])]]

\* The allow-list of clean_csv_data.
fieldnames ==
    <<"pl_name", "disc_year", "disc_pubdate", "sy_dist", "discoverymethod",
      "pl_orbper", "pl_orbsmax", "pl_rade", "pl_masse", "pl_eqt", "pl_insol",
      "st_teff", "st_mass", "st_rad">>

(* -------------------------------- JSON --------------------------------- *)

RECURSIVE JsonEscape(_)
\* json.dump of a str, without the enclosing quotes: " and \ are escaped.
JsonEscape(s) ==
    IF s = <<>> THEN <<>>
    ELSE (IF s[1] \in {"\"", "\\"} THEN <<"\\", s[1]>> ELSE <<s[1]>>)
         \o JsonEscape(Tail(s))

RECURSIVE JsonUnescape(_)
\* json.load of a str literal's body: \x stands for x.
JsonUnescape(s) ==
    IF s = <<>> THEN <<>>
    ELSE IF s[1] = "\\" /\ Len(s) >= 2
         THEN <<s[2]>> \o JsonUnescape(SubSeq(s, 3, Len(s)))
    ELSE <<s[1]>> \o JsonUnescape(Tail(s))

\* A JSON file: an array of objects, each object its members in written
\* order, each member <<key, escaped value>>.
NoJson == [exists |-> FALSE, doc |-> <<>>]

\* json.dump(json_format): the rows of the reader, each dict's members in
\* the reader's field order.
json_dump(order, rows) ==
    [i \in 1..Len(rows) |->
        [j \in 1..Len(order) |-> <<order[j], JsonEscape(rows[i][order[j]])>>]]

\* json_dump writing the values as they are, unescaped.
write_json_raw(order, rows) ==
    [exists |-> TRUE,
     doc |-> [i \in 1..Len(rows) |->
                [j \in 1..Len(order) |-> <<order[j], rows[i][order[j]]>>]]]

\* write_json(reader, file): the file after the call.
write_json(order, rows) == [exists |-> TRUE, doc |-> json_dump(order, rows)]

RECURSIVE object_dict(_)
\* The dict json.load builds of an object: a repeated key keeps its last
\* value.
object_dict(members) ==
    IF members = <<>> THEN <<>>
    ELSE object_dict(Tail(members))
         @@ (Head(members)[1] :> JsonUnescape(Head(members)[2]))

\* json.load: the array of objects as a list of dicts.
json_load(file) == [i \in 1..Len(file.doc) |-> object_dict(file.doc[i])]

(* ------------------------------ sort_data ------------------------------ *)

RECURSIVE insert_by_key(_, _, _)
\* order (positions of data, ascending by key) with position i put after
\* every position whose key is not greater: the insertion keeps equal keys
\* in arrival order.
insert_by_key(order, i, keys) ==
    IF order = <<>> THEN <<i>>
    ELSE IF KeyLess(keys[i], keys[Head(order)]) THEN <<i>> \o order
    ELSE <<Head(order)>> \o insert_by_key(Tail(order), i, keys)

RECURSIVE insert_before_equal(_, _, _)
\* insert_by_key putting position i before the positions of equal key.
insert_before_equal(order, i, keys) ==
    IF order = <<>> THEN <<i>>
    ELSE IF ~KeyLess(keys[Head(order)], keys[i]) THEN <<i>> \o order
    ELSE <<Head(order)>> \o insert_before_equal(Tail(order), i, keys)

RECURSIVE sorted_order(_, _)
\* The positions 1..n of data in the order sorted() returns them.
sorted_order(n, keys) ==
    IF n = 0 THEN <<>> ELSE insert_by_key(sorted_order(n - 1, keys), n, keys)

RECURSIVE sorted_order_unstable(_, _)
sorted_order_unstable(n, keys) ==
    IF n = 0 THEN <<>>
    ELSE insert_before_equal(sorted_order_unstable(n - 1, keys), n, keys)

\* sorted(data, key=funct) given the keys funct computed, by an unstable sort.
sorted_unstable(data, keys) ==
    LET order == sorted_order_unstable(Len(data), keys)
    IN  [k \in 1..Len(data) |-> data[order[k]]]

\* sorted(data, key=funct) given the keys funct computed: ascending, stable.
sorted(data, keys) ==
    LET order == sorted_order(Len(data), keys)
    IN  [k \in 1..Len(data) |-> data[order[k]]]

(* ------------------------- number formatting --------------------------- *)
\* The figures of a report are computed and rounded in exact decimal
\* arithmetic on digit sequences (most significant digit first); the 53-bit
\* rounding of a Python float is not represented.

RECURSIVE NatDigits(_)
NatDigits(n) == IF n < 10 THEN <<n>> ELSE Append(NatDigits(n \div 10), n % 10)

RECURSIVE StripZeros(_)
StripZeros(a) == IF Len(a) > 1 /\ a[1] = 0 THEN StripZeros(Tail(a)) ELSE a

RECURSIVE Zeros(_)
Zeros(k) == IF k <= 0 THEN <<>> ELSE <<0>> \o Zeros(k - 1)

RECURSIVE ColumnSum(_, _, _, _)
\* Sum of a[i] * b[j] over the digit pairs of weight 10^k (i from the given
\* one up), positions counted from the least significant digit, 0-based.
ColumnSum(a, b, k, i) ==
    IF i > k \/ i >= Len(a) THEN 0
    ELSE (IF k - i < Len(b) THEN a[Len(a) - i] * b[Len(b) - (k - i)] ELSE 0)
         + ColumnSum(a, b, k, i + 1)

RECURSIVE CarryUp(_, _, _, _, _)
\* Schoolbook product of a and b from column k on, carry coming in.
CarryUp(a, b, k, carry, acc) ==
    IF k >= Len(a) + Len(b) /\ carry = 0 THEN acc
    ELSE LET t == ColumnSum(a, b, k, 0) + carry
         IN  CarryUp(a, b, k + 1, t \div 10, <<t % 10>> \o acc)

BigMul(a, b) == StripZeros(CarryUp(a, b, 0, 0, <<>>))

RECURSIVE LongDiv(_, _, _, _)
\* Long division of the digits left in a by the natural d: quotient digits
\* q so far, remainder rem.
LongDiv(a, d, rem, q) ==
    IF a = <<>> THEN [q |-> StripZeros(q), rem |-> rem]
    ELSE LET t == 10 * rem + a[1]
         IN  LongDiv(Tail(a), d, t % d, Append(q, t \div d))

RECURSIVE BigInc(_)
BigInc(a) ==
    IF a = <<>> THEN <<1>>
    ELSE IF a[Len(a)] < 9 THEN SubSeq(a, 1, Len(a) - 1) \o <<a[Len(a)] + 1>>
    ELSE BigInc(SubSeq(a, 1, Len(a) - 1)) \o <<0>>

\* a / d rounded to the nearest natural, a tie to the even one (the rounding
\* of Python's format()).
BigDivRound(a, d) ==
    LET r == LongDiv(a, d, 0, <<>>)
        odd == r.q[Len(r.q)] % 2 = 1
    IN  IF 2 * r.rem > d \/ (2 * r.rem = d /\ odd) THEN BigInc(r.q) ELSE r.q

RECURSIVE Grouped(_)
\* The digits of a natural as text with a comma between groups of three.
Grouped(a) ==
    IF Len(a) <= 3 THEN [i \in 1..Len(a) |-> Digits[a[i] + 1]]
    ELSE Grouped(SubSeq(a, 1, Len(a) - 3)) \o <<",">>
         \o [i \in 1..3 |-> Digits[a[Len(a) - 3 + i] + 1]]

\* format(x, ",.<decimals>f") for x = num / den, num a digit sequence.
FormatFixed(num, den, decimals) ==
    LET scaled == BigDivRound(StripZeros(num \o Zeros(decimals)), den)
        padded == Zeros(decimals + 1 - Len(scaled)) \o scaled
        ip == SubSeq(padded, 1, Len(padded) - decimals)
        fp == SubSeq(padded, Len(padded) - decimals + 1, Len(padded))
    IN  Grouped(ip)
        \o (IF decimals = 0 THEN <<>>
            ELSE <<".">> \o [i \in 1..decimals |-> Digits[fp[i] + 1]])

\* format(x * factor * 10^exp10 / den, ",.<decimals>f") for the parsed float
\* x: "inf" for float("inf").
Figure(x, factor, exp10, den, decimals) ==
    IF x.tag = "inf" THEN <<"i", "n", "f">>
    ELSE FormatFixed(BigMul(NatDigits(x.v), factor) \o Zeros(exp10),
                     Scale * den, decimals)

(* ------------------------------- reports ------------------------------- *)

\* PARSEC_M / 1000 = 3.085677581e13 = 3085677581 * 10^4, the kilometres of a
\* parsec: the digits, and the power of ten.
PARSEC_KM == <<3, 0, 8, 5, 6, 7, 7, 5, 8, 1>>
\* LIGHTYEARS_PER_PARSEC = 3.26156 = 326156 / 10^5.
LIGHTYEARS_PER_PARSEC == <<3, 2, 6, 1, 5, 6>>
\* EARTH_MASS_KG = 5.972e24 = 5972 * 10^21: the digits.
EARTH_MASS_KG == <<5, 9, 7, 2>>
\* SOLAR_MASS_KG = 1.9885e30 = 19885 * 10^26: the digits.
SOLAR_MASS_KG == <<1, 9, 8, 8, 5>>
\* The divisor of mass_kg / EARTH_MASS_KG = m * 19885 * 10^5 / 5972.
EARTH_MASS_DIGITS == 5972

\* A report file: whether it exists, its title line and its entries.  An
\* entry is one "{i}) Name: ..." block: the rank written, the planet name,
\* and either the "No data" line or the figure lines.
NoReport == [exists |-> FALSE, title |-> "", entries |-> <<>>]

Line(label, estimated, text) ==
    [label |-> label, estimated |-> estimated, text |-> text]

DataEntry(i, exoplanet, lines) ==
    [rank |-> i, name |-> exoplanet["pl_name"], nodata |-> FALSE, lines |-> lines]

NoDataEntry(i, exoplanet) ==
    [rank |-> i, name |-> exoplanet["pl_name"], nodata |-> TRUE, lines |-> <<>>]

RECURSIVE Flatten(_)
Flatten(ss) == IF ss = <<>> THEN <<>> ELSE Head(ss) \o Flatten(Tail(ss))

\* HasData taking a field that parses to zero for a missing one.
HasData_nonzero(exoplanet, field) ==
    exoplanet[field] # <<>> /\ float(exoplanet[field]) # NumKey(0)

\* The if of every report loop: the field is a non-empty str (a str never
\* equals the float MISSING_VALUE).
HasData(exoplanet, field) == exoplanet[field] # <<>>

\* The key lambda of the numeric reports.
NumericKey(x, field) ==
    IF x[field] # <<>> THEN float(x[field]) ELSE MISSING_VALUE

distance_funct(x) == NumericKey(x, "sy_dist")

\* distance_block without the division by 1000: metres under the KM label.
distance_block_metres(i, exoplanet) ==
    IF HasData(exoplanet, "sy_dist")
    THEN LET d == float(exoplanet["sy_dist"])
         IN  <<DataEntry(i, exoplanet,
                 <<Line("KM", FALSE, Figure(d, PARSEC_KM, 7, 1, 0)),
                   Line("AU", FALSE, Figure(d, NatDigits(AU_PER_PARSEC), 0, 1, 0)),
                   Line("Light Years", FALSE,
                        Figure(d, LIGHTYEARS_PER_PARSEC, 0, 100000, 2)),
                   Line("Parsecs", FALSE, Figure(d, <<1>>, 0, 1, 2))>>)>>
    ELSE <<NoDataEntry(i, exoplanet)>>

distance_block(i, exoplanet) ==
    IF HasData(exoplanet, "sy_dist")
    THEN LET d == float(exoplanet["sy_dist"])
         IN  <<DataEntry(i, exoplanet,
                 <<Line("KM", FALSE, Figure(d, PARSEC_KM, 4, 1, 0)),
                   Line("AU", FALSE, Figure(d, NatDigits(AU_PER_PARSEC), 0, 1, 0)),
                   Line("Light Years", FALSE,
                        Figure(d, LIGHTYEARS_PER_PARSEC, 0, 100000, 2)),
                   Line("Parsecs", FALSE, Figure(d, <<1>>, 0, 1, 2))>>)>>
    ELSE <<NoDataEntry(i, exoplanet)>>

discovery_funct(x) == NumericKey(x, "disc_year")

discovery_block(i, exoplanet) ==
    IF HasData(exoplanet, "disc_year")
    THEN <<DataEntry(i, exoplanet,
             <<Line("Discovery Year", FALSE, exoplanet["disc_year"])>>)>>
    ELSE <<NoDataEntry(i, exoplanet)>>

PUBDATE_SENTINEL == <<"9", "9", "9", "9", "-", "1", "2", "-", "3", "1">>

publication_funct(x) ==
    IF x["disc_pubdate"] # <<>> THEN StrKey(x["disc_pubdate"])
    ELSE StrKey(PUBDATE_SENTINEL)

publication_block(i, exoplanet) ==
    IF exoplanet["disc_pubdate"] # <<>> /\ exoplanet["disc_pubdate"] # PUBDATE_SENTINEL
    THEN <<DataEntry(i, exoplanet,
             <<Line("Publication Date", FALSE, exoplanet["disc_pubdate"])>>)>>
    ELSE <<NoDataEntry(i, exoplanet)>>

size_funct(x) == NumericKey(x, "pl_rade")

size_block(i, exoplanet) ==
    IF HasData(exoplanet, "pl_rade")
    THEN LET r == float(exoplanet["pl_rade"])
         IN  <<DataEntry(i, exoplanet,
                 <<Line("Radius (R_earth)", FALSE, Figure(r, <<1>>, 0, 1, 2)),
                   Line("Radius (km)", FALSE,
                        Figure(r, NatDigits(EARTH_RADIUS_KM), 0, 1, 0))>>)>>
    ELSE <<NoDataEntry(i, exoplanet)>>

orbital_funct(x) == NumericKey(x, "pl_orbper")

\* The two figure lines of an orbital-period entry.
orbital_lines(p, estimated) ==
    <<Line("Orbital Period (days)", estimated, Figure(p, <<1>>, 0, 1, 2)),
      Line("Earth Years", estimated, Figure(p, NatDigits(Scale), 0, EARTH_YEAR, 4))>>

\* float(pl_orbper) < 10_000, resp. > 10_000 (inf is above every number).
BelowThreshold(p) == p.tag = "num" /\ p.v < ESTIMATED_DAYS * Scale
AboveThreshold(p) == p.tag = "inf" \/ p.v > ESTIMATED_DAYS * Scale

orbital_block(i, exoplanet) ==
    IF HasData(exoplanet, "pl_orbper")
    THEN LET p == float(exoplanet["pl_orbper"])
         IN  IF BelowThreshold(p)
             THEN <<DataEntry(i, exoplanet, orbital_lines(p, FALSE))>>
             ELSE IF AboveThreshold(p)
             THEN <<DataEntry(i, exoplanet, orbital_lines(p, TRUE))>>
             ELSE <<>>
    ELSE <<NoDataEntry(i, exoplanet)>>

mass_funct(x) == NumericKey(x, "pl_masse")

mass_block(i, exoplanet) ==
    IF HasData(exoplanet, "pl_masse")
    THEN LET m == float(exoplanet["pl_masse"])
         IN  <<DataEntry(i, exoplanet,
                 <<Line("Mass (M_earth)", FALSE, Figure(m, <<1>>, 0, 1, 2)),
                   Line("Mass (kg)", FALSE, Figure(m, EARTH_MASS_KG, 21, 1, 0))>>)>>
    ELSE <<NoDataEntry(i, exoplanet)>>

stars_funct(x) == NumericKey(x, "st_mass")

stars_block(i, exoplanet) ==
    IF HasData(exoplanet, "st_mass")
    THEN LET m == float(exoplanet["st_mass"])
         IN  <<DataEntry(i, exoplanet,
                 <<Line("Stellar Mass (M_sun)", FALSE, Figure(m, <<1>>, 0, 1, 3)),
                   Line("Mass (kg)", FALSE, Figure(m, SOLAR_MASS_KG, 26, 1, 0)),
                   Line("Planet Mass (M_earth)", FALSE,
                        Figure(m, SOLAR_MASS_KG, 5, EARTH_MASS_DIGITS, 0))>>)>>
    ELSE <<NoDataEntry(i, exoplanet)>>

insolation_funct(x) == NumericKey(x, "pl_insol")

insolation_block(i, exoplanet) ==
    IF HasData(exoplanet, "pl_insol")
    THEN LET f == float(exoplanet["pl_insol"])
         IN  <<DataEntry(i, exoplanet,
                 <<Line("Insolation (S_earth)", FALSE, Figure(f, <<1>>, 0, 1, 4)),
                   Line("Incident Stellar Flux (W/m2)", FALSE,
                        Figure(f, NatDigits(EARTH_FLUX_W_M2), 0, 1, 2))>>)>>
    ELSE <<NoDataEntry(i, exoplanet)>>

\* The key function of each report generator, the generator named by the
\* step of main() it is.
funct(report, x) ==
    CASE report = "exoplanets_distance" -> distance_funct(x)
      [] report = "discovery_year" -> discovery_funct(x)
      [] report = "publication_date" -> publication_funct(x)
      [] report = "size_exoplanets" -> size_funct(x)
      [] report = "orbital_period" -> orbital_funct(x)
      [] report = "exoplanets_mass" -> mass_funct(x)
      [] report = "stars_mass" -> stars_funct(x)
      [] report = "insolation" -> insolation_funct(x)

\* What each report generator writes for the record at rank i.
block(report, i, exoplanet) ==
    CASE report = "exoplanets_distance" -> distance_block(i, exoplanet)
      [] report = "discovery_year" -> discovery_block(i, exoplanet)
      [] report = "publication_date" -> publication_block(i, exoplanet)
      [] report = "size_exoplanets" -> size_block(i, exoplanet)
      [] report = "orbital_period" -> orbital_block(i, exoplanet)
      [] report = "exoplanets_mass" -> mass_block(i, exoplanet)
      [] report = "stars_mass" -> stars_block(i, exoplanet)
      [] report = "insolation" -> insolation_block(i, exoplanet)

\* sort_data(funct), called by the given generator, reading the given
\* key_exoplanets.json: the ValueError funct raised on some record, or the
\* sorted records with the loop of check_duplicates run over them again.
\* sort_data removing the duplicates before it sorts.
sort_data_dedup_first(file, report) ==
    LET data == json_load(file)
        keys == [i \in 1..Len(data) |-> funct(report, data[i])]
        first == dedup_loop(data, <<>>, {})
        firstKeys == [i \in 1..Len(first) |-> funct(report, first[i])]
    IN  IF \E i \in 1..Len(data) : keys[i].tag = "err"
        THEN [raised |-> "ValueError", database |-> <<>>]
        ELSE [raised |-> "none", database |-> sorted(first, firstKeys)]

sort_data(file, report) ==
    LET data == json_load(file)
        keys == [i \in 1..Len(data) |-> funct(report, data[i])]
    IN  IF \E i \in 1..Len(data) : keys[i].tag = "err"
        THEN [raised |-> "ValueError", database |-> <<>>]
        ELSE [raised |-> "none",
              database |-> dedup_loop(sorted(data, keys), <<>>, {})]

\* The report file a generator writes: the title, then its block for the
\* records of data in order, i counting from 1.
WriteReport(report, title, data) ==
    [exists |-> TRUE, title |-> title,
     entries |-> Flatten([i \in 1..Len(data) |-> block(report, i, data[i])])]

(* ---------------------------- the pipeline ----------------------------- *)

CsvNames == {"nasa_exoplanets.csv", "exoplanets.csv", "key_exoplanets.csv"}
JsonNames == {"nasa_exoplanets.json", "exoplanets.json", "key_exoplanets.json"}
ReportNames ==
    {"exoplanets_distance.txt", "exoplanets_discovery.txt",
     "exoplanets_publication.txt", "exoplanets_size.txt",
     "exoplanets_orbital_period.txt", "exoplanets_mass.txt",
     "exoplanets_star_mass.txt", "exoplanets_insolation.txt"}

\* An exception leaves main(): the run is over.
Raise(e) == pc' = "failed" /\ error' = e

\* fetch_nasa_data without raise_for_status: a failed request goes on.
fetch_unchecked ==
    /\ pc = "fetch_nasa_data"
    /\ \E ok \in BOOLEAN : response' = (IF ok THEN archive ELSE NoCsv)
    /\ pc' = "get_nasa_data"
    /\ UNCHANGED <<exoplanets_db, archive, error, csvFiles, jsonFiles, reports, written>>

\* fetch_nasa_data: the archive answers with its CSV payload, or the request
\* fails (a timeout, a non-success status raised by raise_for_status).
fetch_nasa_data ==
    /\ pc = "fetch_nasa_data"
    /\ \E ok \in BOOLEAN :
          IF ok
          THEN response' = archive /\ pc' = "get_nasa_data" /\ UNCHANGED error
          ELSE Raise("HTTPError") /\ UNCHANGED response
    /\ UNCHANGED <<exoplanets_db, archive, csvFiles, jsonFiles, reports, written>>

get_nasa_data ==
    /\ pc = "get_nasa_data"
    /\ csvFiles' = [csvFiles EXCEPT !["nasa_exoplanets.csv"] = response]
    /\ written' = written \cup {"nasa_exoplanets.csv"}
    /\ pc' = "nasa_data_json"
    /\ UNCHANGED <<exoplanets_db, archive, response, error, jsonFiles, reports>>

\* The three CSV-to-JSON steps: read source with DictReader, write_json it.
CsvToJson(step, next, source, target) ==
    /\ pc = step
    /\ jsonFiles' = [jsonFiles EXCEPT ![target] =
                        write_json(csvFiles[source].header, DictReader(csvFiles[source]))]
    /\ written' = written \cup {target}
    /\ pc' = next
    /\ UNCHANGED <<exoplanets_db, archive, response, error, csvFiles, reports>>

nasa_data_json ==
    CsvToJson("nasa_data_json", "all_data_csv", "nasa_exoplanets.csv",
              "nasa_exoplanets.json")

\* all_data_csv: exoplanets.csv is opened (emptied) before the rows are
\* read; a KeyError of check_duplicates leaves it empty.
all_data_csv ==
    /\ pc = "all_data_csv"
    /\ LET f == csvFiles["nasa_exoplanets.csv"]
           reader == DictReader(f)
       IN  IF RaisesKeyError(reader, "pl_name")
           THEN /\ csvFiles' = [csvFiles EXCEPT !["exoplanets.csv"] =
                                   [exists |-> TRUE, header |-> <<>>, lines |-> <<>>]]
                /\ Raise("KeyError")
           ELSE /\ csvFiles' = [csvFiles EXCEPT !["exoplanets.csv"] =
                                   DictWriter(f.header, check_duplicates(reader))]
                /\ pc' = "all_data_json"
                /\ UNCHANGED error
    /\ written' = written \cup {"exoplanets.csv"}
    /\ UNCHANGED <<exoplanets_db, archive, response, jsonFiles, reports>>

all_data_json ==
    CsvToJson("all_data_json", "clean_csv_data", "exoplanets.csv", "exoplanets.json")

\* clean_csv_data: key_exoplanets.csv is opened (emptied), the rows are
\* deduplicated, the header is written, and each row is projected on
\* fieldnames; a KeyError stops it where it is.
clean_csv_data ==
    /\ pc = "clean_csv_data"
    /\ LET reader == DictReader(csvFiles["nasa_exoplanets.csv"])
           database == check_duplicates(reader)
       IN  IF RaisesKeyError(reader, "pl_name")
           THEN /\ csvFiles' = [csvFiles EXCEPT !["key_exoplanets.csv"] =
                                   [exists |-> TRUE, header |-> <<>>, lines |-> <<>>]]
                /\ Raise("KeyError")
           ELSE IF \E j \in 1..Len(fieldnames) : RaisesKeyError(database, fieldnames[j])
           THEN /\ csvFiles' = [csvFiles EXCEPT !["key_exoplanets.csv"] =
                                   DictWriter(fieldnames, <<>>)]
                /\ Raise("KeyError")
           ELSE /\ csvFiles' = [csvFiles EXCEPT !["key_exoplanets.csv"] =
                                   DictWriter(fieldnames, database)]
                /\ pc' = "key_data_json"
                /\ UNCHANGED error
    /\ written' = written \cup {"key_exoplanets.csv"}
    /\ UNCHANGED <<exoplanets_db, archive, response, jsonFiles, reports>>

key_data_json ==
    CsvToJson("key_data_json", "exoplanets_distance", "key_exoplanets.csv",
              "key_exoplanets.json")

\* A report generator: sort_data first (its ValueError leaves the report
\* file untouched), then the file is opened and written whole.
Generate(step, next, file, title) ==
    /\ pc = step
    /\ LET r == sort_data(jsonFiles["key_exoplanets.json"], step)
       IN  IF r.raised # "none"
           THEN Raise(r.raised) /\ UNCHANGED <<reports, written>>
           ELSE /\ reports' = [reports EXCEPT ![file] =
                                  WriteReport(step, title, r.database)]
                /\ written' = written \cup {file}
                /\ pc' = next
                /\ UNCHANGED error
    /\ UNCHANGED <<exoplanets_db, archive, response, csvFiles, jsonFiles>>

exoplanets_distance ==
    Generate("exoplanets_distance", "discovery_year", "exoplanets_distance.txt",
             "List of Exoplanets Distance From Earth")

discovery_year ==
    Generate("discovery_year", "publication_date", "exoplanets_discovery.txt",
             "List of Exoplanets Discover Years in Order")

publication_date ==
    Generate("publication_date", "size_exoplanets", "exoplanets_publication.txt",
             "List of Exoplanets Publication Date in Order")

size_exoplanets ==
    Generate("size_exoplanets", "orbital_period", "exoplanets_size.txt",
             "List of Exoplanets Size From Smaller to Biggest")

orbital_period ==
    Generate("orbital_period", "exoplanets_mass", "exoplanets_orbital_period.txt",
             "List of Exoplanets Orbital Period")

exoplanets_mass ==
    Generate("exoplanets_mass", "stars_mass", "exoplanets_mass.txt",
             "List of Exoplanets Mass in Order ")

stars_mass ==
    Generate("stars_mass", "insolation", "exoplanets_star_mass.txt",
             "List of Exoplanets Star's Mass in Order ")

insolation ==
    Generate("insolation", "done", "exoplanets_insolation.txt",
             "List of Exoplanets Incident Stellar Flux in Order ")

\* main() is run again, over the files the earlier runs left.
main ==
    /\ pc \in {"done", "failed"}
    /\ pc' = "fetch_nasa_data"
    /\ error' = "none"
    /\ response' = NoCsv
    /\ written' = {}
    /\ UNCHANGED <<exoplanets_db, archive, csvFiles, jsonFiles, reports>>

\* One run of main(), step by step.
Run ==
    \/ fetch_nasa_data \/ get_nasa_data \/ nasa_data_json \/ all_data_csv
    \/ all_data_json \/ clean_csv_data \/ key_data_json
    \/ exoplanets_distance \/ discovery_year \/ publication_date
    \/ size_exoplanets \/ orbital_period \/ exoplanets_mass \/ stars_mass
    \/ insolation

\* Runs of main(), one after the other.
Next == Run \/ main

(* ------------------------------ the inputs ----------------------------- *)

\* The fields the reports sort on by float().
NumericFields ==
    {"sy_dist", "disc_year", "pl_rade", "pl_orbper", "pl_masse", "st_mass",
     "pl_insol"}

RECURSIVE Without(_, _)
Without(s, x) ==
    IF s = <<>> THEN <<>>
    ELSE (IF Head(s) = x THEN <<>> ELSE <<Head(s)>>) \o Without(Tail(s), x)

\* The header the archive sends: every allow-listed field and one more column.
FullHeader == fieldnames \o <<"hostname">>

\* Headers of an archive whose schema changed: an allow-listed field is gone.
Headers ==
    {FullHeader, Without(FullHeader, "sy_dist"), Without(FullHeader, "pl_name")}

\* A row's cell under column f, for the row's name and its pair of raw
\* values <<number, date>>: the number stands in every numeric sort field
\* (each report reads one of them), the date in disc_pubdate.
Cell(f, name, value) ==
    IF f = "pl_name" THEN name
    ELSE IF f \in NumericFields THEN value[1]
    ELSE IF f = "disc_pubdate" THEN value[2]
    ELSE IF f = "hostname" THEN <<"h">>
    ELSE <<>>

\* The CSV payloads of at most MaxRows rows.
Archives(headers, names, values) ==
    UNION {
        {[exists |-> TRUE, header |-> h,
          lines |-> [i \in 1..n |-> [j \in 1..Len(h) |-> Cell(h[j], nm[i], vl[i])]]]
            : h \in headers, nm \in [1..n -> names], vl \in [1..n -> values]}
        : n \in 0..MaxRows}

\* exoplanets.db: whether the exoplanets table exists, and its rows in rowid
\* order.
NoDb == [exists |-> FALSE, rows |-> <<>>]

InitWith(headers, names, values) ==
    /\ exoplanets_db = NoDb
    /\ archive \in Archives(headers, names, values)
    /\ response = NoCsv
    /\ pc = "fetch_nasa_data"
    /\ error = "none"
    /\ csvFiles = [n \in CsvNames |-> NoCsv]
    /\ jsonFiles = [n \in JsonNames |-> NoJson]
    /\ reports = [n \in ReportNames |-> NoReport]
    /\ written = {}

NameA == <<"A">>
NameB == <<"B">>
NameC == <<"C">>

Unknown == <<>>
Date2014 == <<"2", "0", "1", "4", "-", "0", "5">>
Date2020 == <<"2", "0", "2", "0", "-", "0", "1">>

\* Runs of main() over an archive of two planets, unknown or a few parsecs
\* away, whose schema may have lost a field.
Init ==
    InitWith(Headers, {NameA, NameB},
             {<<Unknown, Unknown>>, <<<<"1">>, Date2020>>, <<<<"5">>, Date2014>>})

Spec == Init /\ [][Next]_vars

\* One run over an archive of three planets.
InitOrder ==
    InitWith({FullHeader}, {NameA, NameB, NameC},
             {<<Unknown, Unknown>>, <<<<"5">>, Date2014>>})

SpecOrder == InitOrder /\ [][Run]_vars

\* One run over an archive with a distance beyond the largest float and a
\* publication date on the last day there is.
InitSentinel ==
    InitWith({FullHeader}, {NameA, NameB},
             {<<Unknown, Unknown>>, <<<<"1">>, Date2020>>, <<<<"5">>, Date2014>>,
              <<<<"1", "e", "9", "9", "9">>, PUBDATE_SENTINEL>>})

SpecSentinel == InitSentinel /\ [][Run]_vars

\* One run over an archive with orbital periods around the 10 000 days of
\* the "(estimated)" label.
InitOrbit ==
    InitWith({FullHeader}, {NameA, NameB},
             {<<Unknown, Unknown>>, <<<<"3", "6", "5", ".", "2", "5">>, Date2014>>,
              <<<<"1", "0", "0", "0", "0">>, Date2020>>,
              <<<<"1", "5", "0", "0", "0">>, Date2014>>})

SpecOrbit == InitOrbit /\ [][Run]_vars

\* One run over an archive with values written "0" and "0.0".
InitZero ==
    InitWith({FullHeader}, {NameA, NameB},
             {<<Unknown, Unknown>>, <<<<"0">>, Date2014>>,
              <<<<"0", ".", "0">>, Date2020>>, <<<<"5">>, Date2014>>})

SpecZero == InitZero /\ [][Run]_vars

\* One run over an archive whose cells hold quotes and backslashes.
InitJson ==
    InitWith({FullHeader}, {NameA, NameB},
             {<<Unknown, Unknown>>, <<<<"5">>, Date2014>>,
              <<<<"\\", "\"">>, <<"a", "\\", "b">>>>})

SpecJson == InitJson /\ [][Run]_vars

\* Text that is neither a number nor a date.
Garbage == <<"a", "b", "c">>

\* One run over an archive with garbage in the numeric fields of some rows
\* and in the publication date of others.
InitMalformed ==
    InitWith({FullHeader}, {NameA, NameB},
             {<<Unknown, Unknown>>, <<<<"5">>, Date2014>>,
              <<Garbage, Date2014>>, <<<<"5">>, Garbage>>})

SpecMalformed == InitMalformed /\ [][Run]_vars

\* One run over an archive of planets 10 parsecs and half a parsec away.
InitDistance ==
    InitWith({FullHeader}, {NameA, NameB},
             {<<Unknown, Unknown>>, <<<<"1", "0">>, Date2014>>,
              <<<<"0", ".", "5">>, Date2020>>})

SpecDistance == InitDistance /\ [][Run]_vars

\* The key-field snapshots a caller may have put in the data directory:
\* any records over the allow-listed fields, names repeated or not.
Snapshots ==
    {write_json(fieldnames, DictReader(a)) :
        a \in Archives({fieldnames}, {NameA, NameB},
                       {<<Unknown, Unknown>>, <<<<"1">>, Date2020>>,
                        <<<<"5">>, Date2020>>})}

\* The report generators run over such a snapshot.
InitSnapshot ==
    /\ exoplanets_db = NoDb
    /\ archive = NoCsv
    /\ response = NoCsv
    /\ pc = "exoplanets_distance"
    /\ error = "none"
    /\ csvFiles = [n \in CsvNames |-> NoCsv]
    /\ \E snapshot \in Snapshots :
          jsonFiles = [n \in JsonNames |->
                          IF n = "key_exoplanets.json" THEN snapshot ELSE NoJson]
    /\ reports = [n \in ReportNames |-> NoReport]
    /\ written = {}

Reports ==
    \/ exoplanets_distance \/ discovery_year \/ publication_date
    \/ size_exoplanets \/ orbital_period \/ exoplanets_mass \/ stars_mass
    \/ insolation

SpecSnapshot == InitSnapshot /\ [][Reports]_vars

(* ------------------------- the exoplanets table ------------------------ *)

\* The columns load_data binds from each CSV row, in INSERT order.
COLUMNS ==
    <<"pl_name", "disc_year", "disc_pubdate", "sy_dist", "discoverymethod",
      "pl_orbper", "pl_orbsmax", "pl_rade", "pl_masse", "pl_eqt", "pl_insol",
      "st_teff", "st_mass", "st_rad">>

\* The columns SCHEMA declares TEXT; the others are INTEGER or REAL.
TEXT_COLUMNS == {"pl_name", "disc_pubdate", "discoverymethod"}

\* What SQLite stores for a bound str under the column's affinity: in a
\* numeric column a text that reads as a number becomes that number, any
\* other text (the empty one too) stays the text it is.
Affinity(column, text) ==
    IF column \notin TEXT_COLUMNS /\ float(text).tag = "num"
    THEN [kind |-> "num", v |-> float(text).v, s |-> <<>>]
    ELSE [kind |-> "text", v |-> 0, s |-> text]

\* The values of one INSERT, by column.
bind(row) == [c \in Range(COLUMNS) |-> Affinity(c, row[c])]

\* INSERT OR REPLACE: the row with the name is deleted and the new one added.
insert_or_replace(rows, row) ==
    Append(SelectSeq(rows, LAMBDA r : r["pl_name"] # bind(row)["pl_name"]), bind(row))

\* INSERT OR IGNORE against pl_name TEXT UNIQUE.
insert_or_ignore(rows, row) ==
    IF \E k \in 1..Len(rows) : rows[k]["pl_name"] = bind(row)["pl_name"]
    THEN rows
    ELSE Append(rows, bind(row))

RECURSIVE insert_rows(_, _)
\* for row in reader: cur.execute(INSERT ...).
insert_rows(rows, reader) ==
    IF reader = <<>> THEN rows
    ELSE insert_rows(insert_or_ignore(rows, Head(reader)), Tail(reader))

\* create_database: CREATE TABLE IF NOT EXISTS.
create_database ==
    /\ pc = "create_database"
    /\ exoplanets_db' = [exoplanets_db EXCEPT !.exists = TRUE]
    /\ pc' = "idle"
    /\ UNCHANGED <<archive, response, error, csvFiles, jsonFiles, reports, written>>

\* ExoplanetApp.update_database: the refresh runs update_data.py and then
\* load_data.py.
update_database ==
    /\ pc \in {"idle", "loaded", "update_failed"}
    /\ pc' = "update_csv"
    /\ error' = "none"
    /\ UNCHANGED <<exoplanets_db, archive, response, csvFiles, jsonFiles, reports,
                   written>>

\* load_data: every row of the CSV is inserted in one transaction; a row
\* without one of the bound columns, or a missing table, raises before the
\* commit and the transaction is lost.
load_data ==
    /\ pc = "load_data"
    /\ LET reader == DictReader(csvFiles["nasa_exoplanets.csv"])
       IN  IF \/ ~exoplanets_db.exists
              \/ \E j \in 1..Len(COLUMNS) : RaisesKeyError(reader, COLUMNS[j])
           THEN /\ pc' = "update_failed"
                /\ error' = "CalledProcessError"
                /\ UNCHANGED exoplanets_db
           ELSE /\ exoplanets_db' =
                       [exoplanets_db EXCEPT !.rows = insert_rows(@, reader)]
                /\ pc' = "loaded"
                /\ UNCHANGED error
    /\ UNCHANGED <<archive, response, csvFiles, jsonFiles, reports, written>>

\* The payloads the archive sends over the refreshes.
Refreshes ==
    Archives({FullHeader}, {NameA, NameB}, {<<Unknown, Unknown>>, <<<<"5">>, Date2014>>})

\* update_csv: the archive's payload of the moment replaces the CSV, or the
\* request fails and the refresh ends.
update_csv ==
    /\ pc = "update_csv"
    /\ \E ok \in BOOLEAN, payload \in Refreshes :
          IF ok
          THEN /\ archive' = payload
               /\ csvFiles' = [csvFiles EXCEPT !["nasa_exoplanets.csv"] = payload]
               /\ pc' = "load_data"
               /\ UNCHANGED error
          ELSE /\ pc' = "update_failed"
               /\ error' = "CalledProcessError"
               /\ UNCHANGED <<archive, csvFiles>>
    /\ UNCHANGED <<exoplanets_db, response, jsonFiles, reports, written>>

\* The viewer's refreshes, one after the other, from a fresh data directory.
InitLoad ==
    /\ exoplanets_db = NoDb
    /\ archive = NoCsv
    /\ response = NoCsv
    /\ pc = "create_database"
    /\ error = "none"
    /\ csvFiles = [n \in CsvNames |-> NoCsv]
    /\ jsonFiles = [n \in JsonNames |-> NoJson]
    /\ reports = [n \in ReportNames |-> NoReport]
    /\ written = {}

NextLoad == create_database \/ update_database \/ update_csv \/ load_data

SpecLoad == InitLoad /\ [][NextLoad]_vars

(* ------------------------------ properties ----------------------------- *)

\* The rows the pipeline reads from the raw snapshot.
NasaReader == DictReader(csvFiles["nasa_exoplanets.csv"])

\* The raw snapshot is on disk and its rows bear a pl_name.
NasaReadable ==
    csvFiles["nasa_exoplanets.csv"].exists /\ ~RaisesKeyError(NasaReader, "pl_name")

NamesOf(rows) == {rows[i]["pl_name"] : i \in 1..Len(rows)}

\* The positions of reader whose pl_name occurs at no earlier position.
FirstPositions(reader) ==
    {i \in 1..Len(reader) :
        \A j \in 1..(i - 1) : reader[j]["pl_name"] # reader[i]["pl_name"]}

\* The k-th smallest member of a set of positions.
KthOf(S, k) == CHOOSE i \in S : Cardinality({j \in S : j <= i}) = k

\* The records of reader at its first positions, in reader's order.
FirstOccurrences(reader) ==
    [k \in 1..Cardinality(FirstPositions(reader)) |->
        reader[KthOf(FirstPositions(reader), k)]]

\* C1: check_duplicates returns exactly the first occurrence of every
\* pl_name of its input, in input order: no name twice, every name once,
\* nothing for an empty input; exoplanets.csv holds that result.
C1_FirstOccurrences ==
    NasaReadable =>
        LET out == check_duplicates(NasaReader)
        IN  /\ out = FirstOccurrences(NasaReader)
            /\ \A i, j \in 1..Len(out) : i # j => out[i]["pl_name"] # out[j]["pl_name"]
            /\ NamesOf(out) = NamesOf(NasaReader)
            /\ (Len(NasaReader) = 0 => Len(out) = 0)
            /\ ("exoplanets.csv" \in written =>
                    DictReader(csvFiles["exoplanets.csv"]) = out)

\* A raw snapshot A, B, A whose two A rows differ went through all_data_csv.
C1_Witness ==
    /\ NasaReadable
    /\ "exoplanets.csv" \in written
    /\ Len(NasaReader) = 3
    /\ NasaReader[1]["pl_name"] = NasaReader[3]["pl_name"]
    /\ NasaReader[1]["pl_name"] # NasaReader[2]["pl_name"]
    /\ NasaReader[1] # NasaReader[3]
    /\ Len(csvFiles["exoplanets.csv"].lines) = 2

\* C2: check_duplicates is idempotent and never lengthens its input.
C2_Idempotent ==
    NasaReadable =>
        LET out == check_duplicates(NasaReader)
        IN  /\ check_duplicates(out) = out
            /\ Len(out) <= Len(NasaReader)

\* A raw snapshot of three differing rows of one planet was deduplicated.
C2_Witness ==
    /\ NasaReadable
    /\ "exoplanets.csv" \in written
    /\ Len(NasaReader) = 3
    /\ Cardinality(NamesOf(NasaReader)) = 1
    /\ NasaReader[1] # NasaReader[2] /\ NasaReader[2] # NasaReader[3]
    /\ Len(check_duplicates(NasaReader)) = 1

\* The report generators, each named by its step of main(), and the field
\* each sorts on.
Generators ==
    {"exoplanets_distance", "discovery_year", "publication_date", "size_exoplanets",
     "orbital_period", "exoplanets_mass", "stars_mass", "insolation"}

FieldOf(report) ==
    CASE report = "exoplanets_distance" -> "sy_dist"
      [] report = "discovery_year" -> "disc_year"
      [] report = "publication_date" -> "disc_pubdate"
      [] report = "size_exoplanets" -> "pl_rade"
      [] report = "orbital_period" -> "pl_orbper"
      [] report = "exoplanets_mass" -> "pl_masse"
      [] report = "stars_mass" -> "st_mass"
      [] report = "insolation" -> "pl_insol"

\* The key-field snapshot the generators read.
KeySnapshot == jsonFiles["key_exoplanets.json"]

\* C3: in every report category, sort_data ranks each record whose sort
\* field is empty after every record whose sort field has a value.
C3_UnknownAfterKnown ==
    KeySnapshot.exists =>
        \A report \in Generators :
            LET r == sort_data(KeySnapshot, report)
                f == FieldOf(report)
            IN  r.raised = "none" =>
                    \A i, j \in 1..Len(r.database) :
                        (r.database[i][f] = <<>> /\ r.database[j][f] # <<>>) => j < i

\* C4: sort_data returns the records of the (deduplicated) snapshot in
\* ascending key order, records of equal key in snapshot order.
C4_AscendingStable ==
    KeySnapshot.exists =>
        \A report \in Generators :
            LET data == json_load(KeySnapshot)
                r == sort_data(KeySnapshot, report)
                db == r.database
                pos(x) == CHOOSE k \in 1..Len(data) : data[k] = x
            IN  r.raised = "none" =>
                    /\ Len(db) = Len(data)
                    /\ Range(db) = Range(data)
                    /\ \A i, j \in 1..Len(db) :
                          i < j => ~KeyLess(funct(report, db[j]), funct(report, db[i]))
                    /\ \A i, j \in 1..Len(db) :
                          (i < j /\ ~KeyLess(funct(report, db[i]), funct(report, db[j])))
                              => pos(db[i]) < pos(db[j])

\* The snapshot holds two planets of unknown distance and then one 5 parsecs
\* away, and the distance report lists the known one first and the two
\* unknown ones in snapshot order.
C4_Witness ==
    /\ KeySnapshot.exists
    /\ "exoplanets_distance.txt" \in written
    /\ LET data == json_load(KeySnapshot)
           e == reports["exoplanets_distance.txt"].entries
       IN  /\ Len(data) = 3
           /\ data[1]["sy_dist"] = Unknown /\ data[2]["sy_dist"] = Unknown
           /\ data[3]["sy_dist"] = <<"5">>
           /\ Len(e) = 3
           /\ e[1].name = data[3]["pl_name"]
           /\ e[2].name = data[1]["pl_name"]
           /\ e[3].name = data[2]["pl_name"]

\* The file each generator writes.
ReportFile(report) ==
    CASE report = "exoplanets_distance" -> "exoplanets_distance.txt"
      [] report = "discovery_year" -> "exoplanets_discovery.txt"
      [] report = "publication_date" -> "exoplanets_publication.txt"
      [] report = "size_exoplanets" -> "exoplanets_size.txt"
      [] report = "orbital_period" -> "exoplanets_orbital_period.txt"
      [] report = "exoplanets_mass" -> "exoplanets_mass.txt"
      [] report = "stars_mass" -> "exoplanets_star_mass.txt"
      [] report = "insolation" -> "exoplanets_insolation.txt"

\* The position of the first row of reader bearing the name.
FirstOf(reader, name) ==
    CHOOSE i \in FirstPositions(reader) : reader[i]["pl_name"] = name

\* C5: end to end, the distance report has one entry per planet, built from
\* the planet's first record in the source: "No data" exactly when that
\* record's sy_dist is empty, and then listed after every planet with data.
C5_FirstSeenReported ==
    (NasaReadable /\ "exoplanets_distance.txt" \in written) =>
        LET e == reports["exoplanets_distance.txt"].entries
        IN  \A n \in NamesOf(NasaReader) :
                LET first == NasaReader[FirstOf(NasaReader, n)]
                    at == {k \in 1..Len(e) : e[k].name = n}
                IN  /\ Cardinality(at) = 1
                    /\ \A k \in at :
                          /\ e[k].rank = k
                          /\ e[k].nodata <=> first["sy_dist"] = <<>>
                          /\ e[k].nodata => \A m \in 1..Len(e) : ~e[m].nodata => m < k

\* The scenario of the specification: B unknown, A at 5 parsecs, B again at
\* 1 parsec; the report lists A with its distances, then B with "No data".
C5_Example ==
    /\ NasaReadable
    /\ "exoplanets_distance.txt" \in written
    /\ [i \in 1..Len(NasaReader) |->
            <<NasaReader[i]["pl_name"], NasaReader[i]["sy_dist"]>>]
         = <<<<NameB, <<>>>>, <<NameA, <<"5">>>>, <<NameB, <<"1">>>>>>
    /\ reports["exoplanets_distance.txt"].entries
         = <<DataEntry(1, [pl_name |-> NameA],
                <<Line("KM", FALSE,
                       <<"1", "5", "4", ",", "2", "8", "3", ",", "8", "7", "9", ",",
                         "0", "5", "0", ",", "0", "0", "0">>),
                  Line("AU", FALSE, <<"1", ",", "0", "3", "1", ",", "3", "2", "5">>),
                  Line("Light Years", FALSE, <<"1", "6", ".", "3", "1">>),
                  Line("Parsecs", FALSE, <<"5", ".", "0", "0">>)>>),
             NoDataEntry(2, [pl_name |-> NameB])>>

\* C6: every report written lists each record sort_data returned exactly
\* once, in that order, ranked 1..n: a data block when the category's field
\* is present, "No data" when it is absent.
C6_OneEntryPerRecord ==
    \A report \in Generators :
        (KeySnapshot.exists /\ ReportFile(report) \in written) =>
            LET db == sort_data(KeySnapshot, report).database
                e == reports[ReportFile(report)].entries
            IN  /\ Len(e) = Len(db)
                /\ \A k \in 1..Len(e) :
                      /\ k <= Len(db)
                      /\ e[k].rank = k
                      /\ e[k].name = db[k]["pl_name"]
                      /\ e[k].nodata <=> db[k][FieldOf(report)] = <<>>
                      /\ ~e[k].nodata => Len(e[k].lines) >= 1

\* days > 10 000, for a parsed orbital period.
LongPeriod(p) == p.tag = "inf" \/ (p.tag = "num" /\ p.v > ESTIMATED_DAYS * Scale)

\* C7: in the orbital-period report every record with a known pl_orbper has
\* its days and Earth-years figures (d / 365.25, 4 decimals), both labelled
\* "(estimated)" exactly when d > 10 000; 365.25 days are 1.0000 years.
C7_EstimatedLabel ==
    (KeySnapshot.exists /\ "exoplanets_orbital_period.txt" \in written) =>
        LET db == sort_data(KeySnapshot, "orbital_period").database
            e == reports["exoplanets_orbital_period.txt"].entries
        IN  \A k \in 1..Len(db) :
                db[k]["pl_orbper"] # <<>> =>
                    \E m \in 1..Len(e) :
                        /\ e[m].name = db[k]["pl_name"]
                        /\ ~e[m].nodata
                        /\ Len(e[m].lines) = 2
                        /\ e[m].lines[1].label = "Orbital Period (days)"
                        /\ e[m].lines[2].label = "Earth Years"
                        /\ \A l \in 1..2 :
                              e[m].lines[l].estimated
                                  <=> LongPeriod(float(db[k]["pl_orbper"]))
                        /\ (db[k]["pl_orbper"] = <<"3", "6", "5", ".", "2", "5">>
                              => e[m].lines[2].text = <<"1", ".", "0", "0", "0", "0">>)

NumericGenerators == Generators \ {"publication_date"}

ZeroTexts == {<<"0">>, <<"0", ".", "0">>}

\* The parsed key is a positive number (or inf).
Positive(key) == key.tag = "inf" \/ (key.tag = "num" /\ key.v > 0)

\* C8: in every numeric category a record whose field reads "0" or "0.0" has
\* key 0, is sorted before every record with a positive value and before
\* every unknown one, and is written as a data block, never as "No data".
C8_ZeroIsKnown ==
    KeySnapshot.exists =>
        \A report \in NumericGenerators :
            LET r == sort_data(KeySnapshot, report)
                db == r.database
                f == FieldOf(report)
                e == reports[ReportFile(report)].entries
            IN  r.raised = "none" =>
                    \A i \in 1..Len(db) :
                        db[i][f] \in ZeroTexts =>
                            /\ funct(report, db[i]) = NumKey(0)
                            /\ \A j \in 1..Len(db) :
                                  (db[j][f] = <<>> \/ Positive(funct(report, db[j])))
                                      => i < j
                            /\ ReportFile(report) \in written =>
                                  /\ \E m \in 1..Len(e) : e[m].name = db[i]["pl_name"]
                                  /\ \A m \in 1..Len(e) :
                                        e[m].name = db[i]["pl_name"] =>
                                            ~e[m].nodata /\ Len(e[m].lines) >= 1

\* The snapshot lists an unknown planet, then one at "0.0"; every report is
\* written, and the last lists the "0.0" planet first, with its figures.
C8_Witness ==
    /\ pc = "done"
    /\ LET data == json_load(KeySnapshot)
           e == reports["exoplanets_insolation.txt"].entries
       IN  /\ Len(data) = 2
           /\ data[1]["pl_insol"] = <<>>
           /\ data[2]["pl_insol"] = <<"0", ".", "0">>
           /\ Len(e) = 2
           /\ e[1].name = data[2]["pl_name"] /\ ~e[1].nodata
           /\ e[1].lines[2].text = <<"0", ".", "0", "0">>
           /\ e[2].nodata

\* The CSV file each JSON snapshot is converted from.
JsonSource(target) ==
    CASE target = "nasa_exoplanets.json" -> "nasa_exoplanets.csv"
      [] target = "exoplanets.json" -> "exoplanets.csv"
      [] target = "key_exoplanets.json" -> "key_exoplanets.csv"

\* C9: a collection written by write_json loads back as the same records:
\* as many, each with the same field names and the same string values.
C9_JsonRoundTrip ==
    \A target \in JsonNames :
        LET source == csvFiles[JsonSource(target)]
            rows == DictReader(source)
        IN  /\ source.exists => json_load(write_json(source.header, rows)) = rows
            /\ target \in written =>
                  LET loaded == json_load(jsonFiles[target])
                  IN  /\ Len(loaded) = Len(rows)
                      /\ \A i \in 1..Len(rows) :
                            /\ DOMAIN loaded[i] = DOMAIN rows[i]
                            /\ \A k \in DOMAIN rows[i] : loaded[i][k] = rows[i][k]

\* The key-field snapshot was written from a record holding a backslash
\* and a quote.
C9_Witness ==
    /\ "key_exoplanets.json" \in written
    /\ \E i \in 1..Len(json_load(KeySnapshot)) :
          /\ json_load(KeySnapshot)[i]["sy_dist"] = <<"\\", "\"">>
          /\ json_load(KeySnapshot)[i]["disc_pubdate"] = <<"a", "\\", "b">>

\* C10: the fetch completes before any file is written: a failed fetch ends
\* the run with the error, having written and changed no file, and no step
\* of a failed run follows.
C10_FetchBeforeWrites ==
    [][/\ (written # {} => response.exists /\ response = archive)
       /\ (pc = "fetch_nasa_data" /\ pc' = "failed") =>
              /\ error' = "HTTPError"
              /\ written' = {}
              /\ UNCHANGED <<csvFiles, jsonFiles, reports>>
       /\ (pc = "fetch_nasa_data" /\ pc' # "failed") => response' = archive
       /\ pc = "failed" =>
              /\ pc' = "fetch_nasa_data"
              /\ UNCHANGED <<csvFiles, jsonFiles, reports>>]_vars

\* A second run's fetch failed over the files a complete first run left.
C10_Witness ==
    /\ pc = "failed"
    /\ error = "HTTPError"
    /\ written = {}
    /\ \A n \in ReportNames : reports[n].exists
    /\ Len(csvFiles["nasa_exoplanets.csv"].lines) = MaxRows

\* The files one run of main() writes: six snapshots and eight reports.
OutputNames == CsvNames \cup JsonNames \cup ReportNames

\* C11: when a run of main() has ended, normally or by an error, it has
\* written either every output file or none.
C11_AllOrNothing ==
    pc \in {"done", "failed"} => (written = {} \/ written = OutputNames)

\* A run over an archive without the sy_dist column ended in clean_csv_data
\* having written the raw and the full snapshots and opened the key one.
C11_PartialRun ==
    /\ pc = "failed"
    /\ error = "KeyError"
    /\ written = {"nasa_exoplanets.csv", "nasa_exoplanets.json", "exoplanets.csv",
                  "exoplanets.json", "key_exoplanets.csv"}

\* A date as the archive writes it: YYYY-MM-DD.
IsDate(t) ==
    /\ Len(t) = 10
    /\ t[5] = "-" /\ t[8] = "-"
    /\ \A i \in (1..10) \ {5, 8} : IsDigit(t[i])

\* A non-empty sort field of the category that is not a value of its kind:
\* text without a digit in a numeric field, a non-date in disc_pubdate.
Malformed(report, t) ==
    /\ t # <<>>
    /\ IF report = "publication_date" THEN ~IsDate(t)
       ELSE t # <<"i", "n", "f">> /\ \A i \in 1..Len(t) : ~IsDigit(t[i])

\* C12: in every report category a snapshot holding a record with a
\* malformed sort field makes the generator raise ValueError, and the run
\* writes no report of that category.
C12_MalformedRaises ==
    KeySnapshot.exists =>
        \A report \in Generators :
            LET data == json_load(KeySnapshot)
            IN  (\E i \in 1..Len(data) : Malformed(report, data[i][FieldOf(report)]))
                    => /\ sort_data(KeySnapshot, report).raised = "ValueError"
                       /\ ReportFile(report) \notin written

\* The publication-date report was written with garbage listed as a date.
C12_GarbageDateListed ==
    /\ "exoplanets_publication.txt" \in written
    /\ \E k \in 1..Len(reports["exoplanets_publication.txt"].entries) :
          LET e == reports["exoplanets_publication.txt"].entries[k]
          IN  ~e.nodata /\ e.lines[1].text = Garbage

\* The header of the raw snapshot has every allow-listed field.
HeaderComplete ==
    Range(fieldnames) \subseteq Range(csvFiles["nasa_exoplanets.csv"].header)

\* C13: once clean_csv_data has run, either the source header lacks an
\* allow-listed field and the run has ended there with the missing-key
\* error (KeyError in the code), with no key JSON and no report written, or
\* the header is complete, no such error was raised, and the key snapshot
\* holds the deduplicated records with exactly the 14 allow-listed fields,
\* empty cells kept empty.
C13_ProjectionFails ==
    "key_exoplanets.csv" \in written =>
        IF ~HeaderComplete
        THEN /\ pc = "failed"
             /\ error = "KeyError"
             /\ "key_exoplanets.json" \notin written
             /\ written \cap ReportNames = {}
        ELSE LET out == DictReader(csvFiles["key_exoplanets.csv"])
                 src == check_duplicates(NasaReader)
             IN  /\ error # "KeyError"
                 /\ Len(out) = Len(src)
                 /\ \A i \in 1..Len(out) :
                       /\ DOMAIN out[i] = Range(fieldnames)
                       /\ \A f \in Range(fieldnames) : out[i][f] = src[i][f]

\* A run over an archive without the sy_dist column and without rows went
\* through clean_csv_data and every later step.
C13_HeaderOnlyRun ==
    /\ pc = "done"
    /\ ~HeaderComplete
    /\ written = OutputNames
    /\ csvFiles["key_exoplanets.csv"].header = fieldnames

\* The rows of the exoplanets table.
Stored == exoplanets_db.rows

\* C14: whatever a step does, the table then holds no two rows of one
\* pl_name and every row it held is still there unchanged; and a load into
\* the empty table stores the rows check_duplicates gives for the CSV, each
\* projected on the table's columns.
C14_InsertOrIgnore ==
    [][/\ \A i, j \in 1..Len(Stored') :
             i # j => Stored'[i]["pl_name"] # Stored'[j]["pl_name"]
       /\ Len(Stored') >= Len(Stored)
       /\ \A k \in 1..Len(Stored) : Stored'[k] = Stored[k]
       /\ (pc = "load_data" /\ pc' = "loaded" /\ Stored = <<>>) =>
             LET database == check_duplicates(NasaReader)
             IN  Stored' = [i \in 1..Len(database) |-> bind(database[i])]]_vars

\* A refresh loaded a CSV whose first row of planet A has a distance, into a
\* table that kept planet A's earlier row without one, and the CSV names
\* planet A more than once.
C14_Witness ==
    /\ pc = "loaded"
    /\ Len(NasaReader) = MaxRows
    /\ NasaReader[1]["pl_name"] = NameA /\ NasaReader[1]["sy_dist"] = <<"5">>
    /\ NasaReader[2]["pl_name"] = NameA /\ NasaReader[2]["sy_dist"] = <<>>
    /\ \E k \in 1..Len(Stored) :
          /\ Stored[k]["pl_name"] = Affinity("pl_name", NameA)
          /\ Stored[k]["sy_dist"] = Affinity("sy_dist", <<>>)
    /\ \E k \in 1..Len(Stored) :
          /\ Stored[k]["pl_name"] = Affinity("pl_name", NameB)
          /\ Stored[k]["sy_dist"] = Affinity("sy_dist", <<"5">>)

\* The entries of the distance report whose record has the sy_dist text.
DistanceEntries(text) ==
    LET db == sort_data(KeySnapshot, "exoplanets_distance").database
        e == reports["exoplanets_distance.txt"].entries
    IN  {e[k] : k \in {k \in 1..Len(e) :
                          k <= Len(db) /\ db[k]["sy_dist"] = text}}

\* The figures of an entry, by label.
FigureOf(entry, label) ==
    LET at == {l \in 1..Len(entry.lines) : entry.lines[l].label = label}
    IN  IF at = {} THEN <<>> ELSE entry.lines[CHOOSE l \in at : TRUE].text

\* 10 pc: 10 * 3.085677581e13 km, 10 * 206265 AU.
Km10 ==
    <<"3", "0", "8", ",", "5", "6", "7", ",", "7", "5", "8", ",", "1", "0", "0",
      ",", "0", "0", "0">>
Au10 == <<"2", ",", "0", "6", "2", ",", "6", "5", "0">>
\* 0.5 pc: 0.5 * 3.085677581e13 km; 103132.5 AU, written to 0 decimals.
KmHalf ==
    <<"1", "5", ",", "4", "2", "8", ",", "3", "8", "7", ",", "9", "0", "5", ",",
      "0", "0", "0">>
AuHalf == <<"1", "0", "3", ",", "1", "3", "2">>

\* C15 as stated: at 10 parsecs the report shows km 308,567,758,100,000,
\* AU 2,062,650 and light-years 32.6156.
C15_FiguresAsClaimed ==
    (KeySnapshot.exists /\ "exoplanets_distance.txt" \in written) =>
        \A e \in DistanceEntries(<<"1", "0">>) :
            /\ FigureOf(e, "KM") = Km10
            /\ FigureOf(e, "AU") = Au10
            /\ FigureOf(e, "Light Years") = <<"3", "2", ".", "6", "1", "5", "6">>

\* C15, amended: every record with a known sy_dist has its km and AU
\* figures with thousands separators and no decimals and its light-years
\* figure d * 3.26156 to two decimals: at 10 parsecs 308,567,758,100,000 km,
\* 2,062,650 AU and 32.62 light-years; at 0.5 parsecs 15,428,387,905,000 km,
\* 103,132 AU and 1.63 light-years.
C15_DistanceFigures ==
    (KeySnapshot.exists /\ "exoplanets_distance.txt" \in written) =>
        /\ \A e \in DistanceEntries(<<"1", "0">>) :
              /\ ~e.nodata
              /\ FigureOf(e, "KM") = Km10
              /\ FigureOf(e, "AU") = Au10
              /\ FigureOf(e, "Light Years") = <<"3", "2", ".", "6", "2">>
        /\ \A e \in DistanceEntries(<<"0", ".", "5">>) :
              /\ ~e.nodata
              /\ FigureOf(e, "KM") = KmHalf
              /\ FigureOf(e, "AU") = AuHalf
              /\ FigureOf(e, "Light Years") = <<"1", ".", "6", "3">>

\* The distance report lists a planet 10 parsecs away and one half a parsec
\* away.
C15_Witness ==
    /\ KeySnapshot.exists
    /\ "exoplanets_distance.txt" \in written
    /\ DistanceEntries(<<"1", "0">>) # {}
    /\ DistanceEntries(<<"0", ".", "5">>) # {}

\* Position p of data holds, among the records of its pl_name, the one that
\* sorts first under the category's key: no record of the name has a smaller
\* key, and none of equal key stands earlier.
SortsFirst(report, data, p) ==
    \A q \in 1..Len(data) :
        data[q]["pl_name"] = data[p]["pl_name"] =>
            /\ ~KeyLess(funct(report, data[q]), funct(report, data[p]))
            /\ (~KeyLess(funct(report, data[p]), funct(report, data[q])) => p <= q)

\* The generators in the order main() calls them, and the end.
Steps ==
    <<"exoplanets_distance", "discovery_year", "publication_date", "size_exoplanets",
      "orbital_period", "exoplanets_mass", "stars_mass", "insolation", "done">>

\* C16: for any key snapshot, the sort_data of the generator that is about
\* to run or has just run returns one record for every pl_name of the
\* snapshot and no two of one name, and the record of a name is the one of
\* that name that sorts first; the report written lists those records.
C16_KeepsFirstSorted ==
    KeySnapshot.exists =>
        \A s \in 1..(Len(Steps) - 1) :
            (pc = Steps[s] \/ pc = Steps[s + 1]) =>
                LET report == Steps[s]
                    data == json_load(KeySnapshot)
                    r == sort_data(KeySnapshot, report)
                    out == r.database
                IN  r.raised = "none" =>
                        /\ \A i, j \in 1..Len(out) :
                              i # j => out[i]["pl_name"] # out[j]["pl_name"]
                        /\ NamesOf(out) = NamesOf(data)
                        /\ \A k \in 1..Len(out) :
                              \E p \in 1..Len(data) :
                                  data[p] = out[k] /\ SortsFirst(report, data, p)
                        /\ (ReportFile(report) \in written =>
                              LET e == reports[ReportFile(report)].entries
                              IN  /\ Len(e) = Len(out)
                                  /\ \A k \in 1..Len(e) :
                                        e[k].name = out[k]["pl_name"])

\* The snapshot names planet A first at 5 parsecs and later at 1 parsec, and
\* the distance report lists planet A once, at 1 parsec.
C16_Witness ==
    /\ KeySnapshot.exists
    /\ "exoplanets_distance.txt" \in written
    /\ LET data == json_load(KeySnapshot)
           e == reports["exoplanets_distance.txt"].entries
       IN  /\ Len(data) = 3
           /\ data[1]["pl_name"] = NameA /\ data[1]["sy_dist"] = <<"5">>
           /\ data[2]["pl_name"] = NameB
           /\ data[3]["pl_name"] = NameA /\ data[3]["sy_dist"] = <<"1">>
           /\ Len(e) = 2
           /\ \E k \in 1..2 :
                 /\ e[k].name = NameA
                 /\ FigureOf(e[k], "Parsecs") = <<"1", ".", "0", "0">>

====
